---- MODULE Spec2Model ----
(***************************************************************************)
(* Session cart / checkout backend (src/main.py, src/schemas.py).          *)
(*                                                                         *)
(* State: the three document collections (product, cart, order), the two   *)
(* cookies each browser holds (the unsigned "sid" cart key and the signed  *)
(* session carrying age_verified_21), and the generators of fresh ids.     *)
(* Money is counted in mills (1/1000 of a currency unit) so that           *)
(* round(subtotal, 2) is a real rounding step and not the identity.        *)
(* Timestamps (created_at / updated_at) are not modelled: nothing reads    *)
(* them.  The document store is taken to be reachable (the                 *)
(* "Database not available" branches are not taken).                       *)
(*                                                                         *)
(* Spec serves one request at a time.  SpecInterleaved serves up to        *)
(* MaxInFlight requests at once, one store operation a step.               *)
(* A cookie-less request is given a sid of its own, so one browser already *)
(* leaves carts of several sessions in the store.                          *)
(***************************************************************************)
EXTENDS Integers, Sequences, FiniteSets, TLC

\* ---------------------------------------------------------------- bounds
MaxProducts == 1      \* product documents that can be created
MaxSid      == 2      \* session identifiers uuid4 can mint
MaxOrders   == 1      \* order documents that can be created
MaxInFlight == 2      \* requests served at the same time (SpecInterleaved)
MaxStarted  == 3      \* cart requests accepted in all (SpecInterleaved)
MaxStored   == 3      \* product documents the store holds at start (SpecList)

\* ------------------------------------------------------ program constants
QtyMin == 1           \* CartItem.qty  Field(ge=1)
QtyMax == 100         \* CartItem.qty  Field(le=100)

\* ---------------------------------------------------------------- inputs
Browsers == {"b1"}

NoSid == 0            \* request.cookies.get("sid") is None
NoId  == 0            \* a cart dict that carries no "_id" key
BadId == 0            \* a product id string that ObjectId() rejects

AllowedCategory == {"bud", "vapes", "edibles"}

\* Optional[float] is a sequence of length 0 (None) or 1; so is a title that
\* a stored document may lack.
ProductInputs ==
    { [title |-> <<"t">>, price |-> 1004,  category |-> "bud",     in_stock |-> TRUE,  thc_mg |-> <<>>,   cbd_mg |-> <<>>],
      [title |-> <<"t">>, price |-> 2500,  category |-> "vapes",   in_stock |-> FALSE, thc_mg |-> <<5>>,  cbd_mg |-> <<>>],
      [title |-> <<"t">>, price |-> -1000, category |-> "edibles", in_stock |-> TRUE,  thc_mg |-> <<>>,   cbd_mg |-> <<>>],
      [title |-> <<"t">>, price |-> 2500,  category |-> "bud",     in_stock |-> TRUE,  thc_mg |-> <<-1>>, cbd_mg |-> <<>>],
      [title |-> <<"t">>, price |-> 2500,  category |-> "bud",     in_stock |-> TRUE,  thc_mg |-> <<>>,   cbd_mg |-> <<-1>>],
      [title |-> <<"t">>, price |-> 2500,  category |-> "seeds",   in_stock |-> TRUE,  thc_mg |-> <<>>,   cbd_mg |-> <<>>] }

PidInputs == 0 .. MaxProducts          \* BadId, then ids an ObjectId() accepts
QtyInputs == {0, 1, 2, 101}

\* The category query parameter: absent, allowed, or outside the Literal.
CategoryInputs == {<<>>, <<"bud">>, <<"seeds">>}

\* Documents the product collection may hold however they got there: valid
\* ones, one of a category outside the policy, ones that lack a title.
StoredDocs ==
    { [title |-> <<"t">>, price |-> 1004,  category |-> "bud",     in_stock |-> TRUE,  thc_mg |-> <<>>,  cbd_mg |-> <<>>],
      [title |-> <<"t">>, price |-> 2500,  category |-> "vapes",   in_stock |-> FALSE, thc_mg |-> <<5>>, cbd_mg |-> <<>>],
      [title |-> <<"t">>, price |-> -1000, category |-> "edibles", in_stock |-> TRUE,  thc_mg |-> <<>>,  cbd_mg |-> <<>>],
      [title |-> <<"t">>, price |-> 2500,  category |-> "seeds",   in_stock |-> TRUE,  thc_mg |-> <<>>,  cbd_mg |-> <<>>],
      [title |-> <<>>,    price |-> 1004,  category |-> "bud",     in_stock |-> TRUE,  thc_mg |-> <<>>,  cbd_mg |-> <<>>],
      [title |-> <<>>,    price |-> 2500,  category |-> "seeds",   in_stock |-> TRUE,  thc_mg |-> <<>>,  cbd_mg |-> <<>>] }

VARIABLES
    products,    \* collection "product": sequence of documents, _id = index
    carts,       \* collection "cart": session_id -> [_id, items]
    orders,      \* collection "order": sequence of documents, _id = index
    cookies,     \* per browser: [sid, age_verified_21]
    nextSid,     \* next value of uuid.uuid4().hex
    last,        \* the response of the most recent request
    reqs,        \* the requests being served: each handler's local variables
    started      \* how many requests have been handed to reqs

vars == <<products, carts, orders, cookies, nextSid, last, reqs, started>>

Threads == 1 .. MaxInFlight

\* ----------------------------------------------------------- pure helpers

\* CartItem: qty: int = Field(1, ge=1, le=100)
CartItem(p, q) == [product_id |-> p, qty |-> q]
ValidQty(q) == q >= QtyMin /\ q <= QtyMax

\* ProductIn: title: str, category: AllowedCategory (price, thc_mg, cbd_mg
\* unconstrained floats)
ProductIn(payload) ==
    /\ Len(payload.title) = 1
    /\ payload.category \in AllowedCategory

\* schemas.Product: price ge=0, category Literal, thc_mg / cbd_mg ge=0 when present
Product(payload) ==
    /\ payload.price >= 0
    /\ payload.category \in AllowedCategory
    /\ \A i \in DOMAIN payload.thc_mg : payload.thc_mg[i] >= 0
    /\ \A i \in DOMAIN payload.cbd_mg : payload.cbd_mg[i] >= 0

\* database.create_document("product", payload): validated insert, fresh id
create_document(prods, payload) ==
    IF Product(payload)
    THEN [ok |-> TRUE,  docs |-> Append(prods, payload), id |-> Len(prods) + 1]
    ELSE [ok |-> FALSE, docs |-> prods,                  id |-> 0]

\* database.get_documents("product", {"category": ...}): the documents whose
\* category the filter admits, in store order, each with its _id
get_documents(prods, cats) ==
    SelectSeq([i \in DOMAIN prods |-> [_id |-> i, doc |-> prods[i]]],
              LAMBDA d : d.doc.category \in cats)

\* ProductOut(id=str(d["_id"]), title=d.get("title"), ...): ProductIn plus id
ProductOut(d) ==
    [id |-> d._id, title |-> d.doc.title, price |-> d.doc.price,
     category |-> d.doc.category, in_stock |-> d.doc.in_stock,
     thc_mg |-> d.doc.thc_mg, cbd_mg |-> d.doc.cbd_mg]

\* faulty variant: every fetched document is put in the listing
list_items_unchecked(docs) ==
    [i \in DOMAIN docs |-> ProductOut(docs[i])]

\* list_products: for d in docs: try: items.append(ProductOut(...))
\*                               except Exception: continue
list_items(docs) ==
    LET kept == SelectSeq(docs, LAMBDA d : ProductIn(d.doc))
    IN  [i \in DOMAIN kept |-> ProductOut(kept[i])]

\* faulty variant: the age check passes for every session
age_verified_always(session) == TRUE

\* checkout: request.session.get("age_verified_21")
age_verified(session) == session.age_verified_21

\* faulty variant: the order keeps only the entries the view shows
order_doc_filtered(sid, cart, subtotal) ==
    [session_id |-> sid,
     items |-> SelectSeq(cart.items,
                  LAMBDA it : /\ it.product_id \in DOMAIN products
                              /\ products[it.product_id].in_stock),
     subtotal |-> subtotal, status |-> "created"]

\* checkout: order_doc = {"session_id", "items": cart.get("items", []), "subtotal", "status"}
order_doc(sid, cart, subtotal) ==
    [session_id |-> sid, items |-> cart.items, subtotal |-> subtotal,
     status |-> "created"]

\* ensure_sid: reuse the request's cookie, else mint one and set the cookie
ensure_sid(reqSid, n) ==
    IF reqSid = NoSid
    THEN [sid |-> n,      next |-> n + 1, minted |-> TRUE]
    ELSE [sid |-> reqSid, next |-> n,     minted |-> FALSE]

\* db["cart"].find_one({"session_id": sid}) or {"items": []}
find_cart(c, sid) ==
    IF sid \in DOMAIN c THEN c[sid] ELSE [_id |-> NoId, items |-> <<>>]

\* faulty variant: the entry is appended whether or not the product is in the cart
upsert_item_append(items, p, q) == Append(items, CartItem(p, q))

\* faulty variant: the quantity of an entry in the cart is added to
upsert_item_sum(items, p, q) ==
    LET hits == {i \in DOMAIN items : items[i].product_id = p} IN
    IF hits # {}
    THEN [i \in DOMAIN items |->
            IF i \in hits THEN [items[i] EXCEPT !.qty = @ + q] ELSE items[i]]
    ELSE Append(items, CartItem(p, q))

\* add_to_cart: "upsert item by product_id" (first match is overwritten, loop breaks)
upsert_item(items, p, q) ==
    LET hits == {i \in DOMAIN items : items[i].product_id = p} IN
    IF hits # {}
    THEN LET first == CHOOSE i \in hits : \A j \in hits : i <= j
         IN  [items EXCEPT ![first].qty = q]
    ELSE Append(items, CartItem(p, q))

\* faulty variant: removing an entry empties the cart
remove_item_all(items, p) ==
    IF \E i \in DOMAIN items : items[i].product_id = p THEN <<>> ELSE items

\* remove_from_cart: [it for it in cart["items"] if it.get("product_id") != product_id]
remove_item(items, p) ==
    SelectSeq(items, LAMBDA it : it.product_id # p)

\* db["cart"].update_one({"session_id": sid}, {"$set": cart}, upsert=True)
\* $set of a different _id on a matched document is refused by the store.
update_ok(c, sid, doc) ==
    sid \notin DOMAIN c \/ doc._id = NoId \/ c[sid]._id = doc._id

\* The _id the store gives an inserted document. ObjectIds are only compared
\* for equality, so the least value that no cart document and no handler's copy of one carries
\* stands for them.
fresh_id(c) ==
    LET used == {c[s]._id : s \in DOMAIN c} \cup {reqs[t].cart._id : t \in Threads}
    IN  CHOOSE n \in 1 .. Cardinality(used) + 1 : n \notin used

\* faulty variant: the write merges, it keeps the persisted entries of the
\* products the written list does not name
update_one_merging(c, sid, doc) ==
    LET old   == IF sid \in DOMAIN c THEN c[sid].items ELSE <<>>
        named == {doc.items[k].product_id : k \in DOMAIN doc.items}
        row == [_id   |-> IF sid \in DOMAIN c THEN c[sid]._id
                          ELSE IF doc._id # NoId THEN doc._id ELSE fresh_id(c),
                items |-> doc.items \o
                          SelectSeq(old, LAMBDA it : it.product_id \notin named)]
    IN  [s \in DOMAIN c \cup {sid} |-> IF s = sid THEN row ELSE c[s]]

\* faulty variant: writing an empty list removes the row
update_one_collapsing(c, sid, doc) ==
    LET row == [_id   |-> IF sid \in DOMAIN c THEN c[sid]._id
                          ELSE IF doc._id # NoId THEN doc._id ELSE fresh_id(c),
                items |-> doc.items]
    IN  IF doc.items = <<>>
        THEN [s \in DOMAIN c \ {sid} |-> c[s]]
        ELSE [s \in DOMAIN c \cup {sid} |-> IF s = sid THEN row ELSE c[s]]

\* db["cart"].update_one({"session_id": sid}, {"$set": cart}, upsert=True)
update_one(c, sid, doc) ==
    LET row == [_id   |-> IF sid \in DOMAIN c THEN c[sid]._id
                          ELSE IF doc._id # NoId THEN doc._id ELSE fresh_id(c),
                items |-> doc.items]
    IN  [s \in DOMAIN c \cup {sid} |-> IF s = sid THEN row ELSE c[s]]

\* faulty variant: the delete is not restricted to the session's row
delete_one_all(c, sid) == << >>

\* faulty variant: the cart document is not deleted
delete_one_nothing(c, sid) == c

\* db["cart"].delete_one({"session_id": sid})
delete_one(c, sid) == [s \in DOMAIN c \ {sid} |-> c[s]]

\* faulty variant: the stock flag is not looked at
Shown_any_stock(prods, it) ==
    it.product_id # BadId /\ it.product_id \in DOMAIN prods

\* get_cart, loop body: prod = find_one(ObjectId(pid)); prod and prod.in_stock
Shown(prods, it) ==
    /\ it.product_id # BadId
    /\ it.product_id \in DOMAIN prods
    /\ prods[it.product_id].in_stock

\* round(x, 2) on mills: nearest multiple of 10, ties to even
Round2(m) ==
    LET q == m \div 10
        r == m % 10
    IN  IF r < 5 THEN 10 * q
        ELSE IF r > 5 THEN 10 * (q + 1)
        ELSE IF q % 2 = 0 THEN 10 * q ELSE 10 * (q + 1)

RECURSIVE SumShown(_, _)
SumShown(prods, items) ==
    IF items = <<>> THEN 0
    ELSE (IF Shown(prods, Head(items))
          THEN prods[Head(items).product_id].price * Head(items).qty
          ELSE 0) + SumShown(prods, Tail(items))

\* get_cart: CartOut(items=[shown entries], subtotal=round(subtotal, 2))
CartOut(c, prods, sid) ==
    LET raw == find_cart(c, sid).items IN
    [items    |-> SelectSeq(raw, LAMBDA it : Shown(prods, it)),
     subtotal |-> Round2(SumShown(prods, raw))]

\* The response a client sees (history variable `last`).
Resp(op, b, status, sid, vsid, had, p, q, items, subtotal, id) ==
    [op |-> op, b |-> b, status |-> status, sid |-> sid, view_sid |-> vsid,
     had_sid |-> had, pid |-> p, qty |-> q, had_qty |-> 0, items |-> items,
     subtotal |-> subtotal, id |-> id, category |-> <<>>, age_verified |-> FALSE]

\* The quantity the cart held for p when the request arrived (0: no entry).
qty_of(items, p) ==
    IF \E i \in DOMAIN items : items[i].product_id = p
    THEN items[CHOOSE i \in DOMAIN items : items[i].product_id = p].qty
    ELSE 0

NoResp == Resp("none", "b1", 0, NoSid, NoSid, FALSE, 0, 0, <<>>, 0, 0)

\* A handler's local variables; pc names the store operation it does next.
Idle ==
    [pc |-> "idle", op |-> "none", b |-> "b1", cookie |-> NoSid, sid |-> NoSid,
     vsid |-> NoSid, pid |-> 0, qty |-> 0, cart |-> [_id |-> NoId, items |-> <<>>],
     vitems |-> <<>>, i |-> 1, items |-> <<>>, subtotal |-> 0]

\* -------------------------------------------------------------------- Init
Init ==
    /\ products = <<>>
    /\ carts = << >>
    /\ orders = <<>>
    /\ cookies = [b \in Browsers |-> [sid |-> NoSid, age_verified_21 |-> FALSE]]
    /\ nextSid = 1
    /\ last = NoResp
    /\ reqs = [t \in Threads |-> Idle]
    /\ started = 0

\* ------------------------------------------------------- handlers (atomic)

\* faulty variant: the request flips the flag
verify_age_toggling(b) ==
    /\ cookies' = [cookies EXCEPT ![b].age_verified_21 = ~cookies[b].age_verified_21]
    /\ last' = Resp("verify_age", b, 200, NoSid, NoSid, cookies[b].sid # NoSid,
                    0, 0, <<>>, 0, 0)
    /\ UNCHANGED <<products, carts, orders, nextSid, reqs, started>>

\* POST /verify-age
verify_age(b) ==
    /\ cookies' = [cookies EXCEPT ![b].age_verified_21 = TRUE]
    /\ last' = Resp("verify_age", b, 200, NoSid, NoSid, cookies[b].sid # NoSid,
                    0, 0, <<>>, 0, 0)
    /\ UNCHANGED <<products, carts, orders, nextSid, reqs, started>>

\* GET /auth/status
auth_status(b) ==
    /\ last' = [Resp("auth_status", b, 200, NoSid, NoSid, cookies[b].sid # NoSid,
                     0, 0, <<>>, 0, 0)
                EXCEPT !.age_verified = age_verified(cookies[b])]
    /\ UNCHANGED <<products, carts, orders, cookies, nextSid, reqs, started>>

\* GET /products?category=
list_products(category) ==
    LET status == IF \E i \in DOMAIN category : category[i] \notin AllowedCategory
                  THEN 422      \* Optional[AllowedCategory] rejects the query,
                                \* so the handler's own 400 is never raised
                  ELSE 200
        filter_q == IF category # <<>> THEN {category[1]} ELSE AllowedCategory
        items == IF status = 200
                 THEN list_items(get_documents(products, filter_q))
                 ELSE <<>>
    IN  /\ last' = [Resp("list_products", "b1", status, NoSid, NoSid, FALSE,
                         0, 0, items, 0, 0)
                    EXCEPT !.category = category]
        /\ UNCHANGED <<products, carts, orders, cookies, nextSid, reqs, started>>

\* POST /products
create_product(payload) ==
    LET made == create_document(products, payload) IN
    IF ~ProductIn(payload) \/ ~made.ok
    THEN /\ last' = Resp("create_product", "b1", 422, NoSid, NoSid, FALSE,
                         0, 0, <<>>, 0, 0)
         /\ UNCHANGED <<products, carts, orders, cookies, nextSid, reqs, started>>
    ELSE /\ Len(products) < MaxProducts
         /\ products' = made.docs
         /\ last' = Resp("create_product", "b1", 200, NoSid, NoSid, FALSE,
                         0, 0, <<>>, 0, made.id)
         /\ UNCHANGED <<carts, orders, cookies, nextSid, reqs, started>>

\* faulty variant: a successful update re-prices the orders already placed
update_product_repricing(pid, payload) ==
    LET status == IF ~ProductIn(payload) THEN 422
                  ELSE IF pid = BadId THEN 400
                  ELSE IF pid \notin DOMAIN products THEN 404
                  ELSE 200
        after  == IF status = 200
                  THEN [products EXCEPT ![pid] = payload]
                  ELSE products
    IN  /\ products' = after
        /\ orders' = [o \in DOMAIN orders |->
                        [orders[o] EXCEPT
                           !.subtotal = Round2(SumShown(after, orders[o].items))]]
        /\ last' = Resp("update_product", "b1", status, NoSid, NoSid, FALSE,
                        pid, 0, <<>>, 0, 0)
        /\ UNCHANGED <<carts, cookies, nextSid, reqs, started>>

\* faulty variant: update_one(..., upsert=True) inserts when no record matches
update_product_upsert(pid, payload) ==
    LET status == IF ~ProductIn(payload) THEN 422
                  ELSE IF pid = BadId THEN 400
                  ELSE 200
    IN  /\ products' = IF status # 200 THEN products
                       ELSE IF pid \in DOMAIN products
                       THEN [products EXCEPT ![pid] = payload]
                       ELSE Append(products, payload)
        /\ last' = Resp("update_product", "b1", status, NoSid, NoSid, FALSE,
                        pid, 0, <<>>, 0, 0)
        /\ UNCHANGED <<carts, orders, cookies, nextSid, reqs, started>>

\* PUT /products/{product_id}
update_product(pid, payload) ==
    LET status == IF ~ProductIn(payload) THEN 422
                  ELSE IF pid = BadId THEN 400
                  ELSE IF pid \notin DOMAIN products THEN 404
                  ELSE 200
    IN  /\ products' = IF status = 200
                       THEN [products EXCEPT ![pid] = payload]
                       ELSE products
        /\ last' = Resp("update_product", "b1", status, NoSid, NoSid, FALSE,
                        pid, 0, <<>>, 0, 0)
        /\ UNCHANGED <<carts, orders, cookies, nextSid, reqs, started>>

\* faulty variant: the read writes the shown entries back to the cart document
get_cart_purging(b) ==
    LET es   == ensure_sid(cookies[b].sid, nextSid)
        view == CartOut(carts, products, es.sid)
    IN  /\ es.next <= MaxSid + 1
        /\ nextSid' = es.next
        /\ cookies' = [cookies EXCEPT ![b].sid = es.sid]
        /\ carts' = IF es.sid \in DOMAIN carts
                    THEN [carts EXCEPT ![es.sid].items = view.items]
                    ELSE carts
        /\ last' = Resp("get_cart", b, 200, es.sid, es.sid, ~es.minted,
                        0, 0, view.items, view.subtotal, 0)
        /\ UNCHANGED <<products, orders, reqs, started>>

\* GET /cart
get_cart(b) ==
    LET es   == ensure_sid(cookies[b].sid, nextSid)
        view == CartOut(carts, products, es.sid)
    IN  /\ es.next <= MaxSid + 1
        /\ nextSid' = es.next
        /\ cookies' = [cookies EXCEPT ![b].sid = es.sid]
        /\ last' = Resp("get_cart", b, 200, es.sid, es.sid, ~es.minted,
                        0, 0, view.items, view.subtotal, 0)
        /\ UNCHANGED <<products, carts, orders, reqs, started>>

\* POST /cart/items
add_to_cart(b, p, q) ==
    IF ~ValidQty(q)
    THEN /\ last' = Resp("add_to_cart", b, 422, NoSid, NoSid, cookies[b].sid # NoSid,
                         0, 0, <<>>, 0, 0)
         /\ UNCHANGED <<products, carts, orders, cookies, nextSid, reqs, started>>
    ELSE
    LET es    == ensure_sid(cookies[b].sid, nextSid)
        cart  == find_cart(carts, es.sid)
        doc   == [cart EXCEPT !.items = upsert_item(cart.items, p, q)]
        saved == update_one(carts, es.sid, doc)
        \* return get_cart(request, response): the request's cookies are as before
        es2   == ensure_sid(cookies[b].sid, es.next)
        view  == CartOut(saved, products, es2.sid)
    IN  /\ es2.next <= MaxSid + 1
        /\ carts' = saved
        /\ nextSid' = es2.next
        /\ cookies' = [cookies EXCEPT ![b].sid = es2.sid]
        /\ last' = [Resp("add_to_cart", b, 200, es.sid, es2.sid, ~es.minted,
                         p, q, view.items, view.subtotal, 0)
                        EXCEPT !.had_qty = qty_of(cart.items, p)]
        /\ UNCHANGED <<products, orders, reqs, started>>

\* DELETE /cart/items/{product_id}
remove_from_cart(b, p) ==
    LET es    == ensure_sid(cookies[b].sid, nextSid)
        cart  == find_cart(carts, es.sid)
        doc   == [cart EXCEPT !.items = remove_item(cart.items, p)]
        saved == update_one(carts, es.sid, doc)
        es2   == ensure_sid(cookies[b].sid, es.next)
        view  == CartOut(saved, products, es2.sid)
    IN  /\ es2.next <= MaxSid + 1
        /\ carts' = saved
        /\ nextSid' = es2.next
        /\ cookies' = [cookies EXCEPT ![b].sid = es2.sid]
        /\ last' = [Resp("remove_from_cart", b, 200, es.sid, es2.sid, ~es.minted,
                         p, 0, view.items, view.subtotal, 0)
                        EXCEPT !.had_qty = qty_of(cart.items, p)]
        /\ UNCHANGED <<products, orders, reqs, started>>

\* faulty variant: a cart without entries is refused with 400
checkout_refusing_empty(b) ==
    IF ~age_verified(cookies[b])
    THEN /\ last' = Resp("checkout", b, 403, NoSid, NoSid, cookies[b].sid # NoSid,
                         0, 0, <<>>, 0, 0)
         /\ UNCHANGED <<products, carts, orders, cookies, nextSid, reqs, started>>
    ELSE
    LET es    == ensure_sid(cookies[b].sid, nextSid)
        cart  == find_cart(carts, es.sid)
        es2   == ensure_sid(cookies[b].sid, es.next)
        view  == CartOut(carts, products, es2.sid)
        order == order_doc(es.sid, cart, view.subtotal)
    IN  IF cart.items = <<>>
        THEN /\ es.next <= MaxSid + 1
             /\ nextSid' = es.next
             /\ cookies' = [cookies EXCEPT ![b].sid = es.sid]
             /\ last' = Resp("checkout", b, 400, es.sid, es.sid, ~es.minted,
                             0, 0, <<>>, 0, 0)
             /\ UNCHANGED <<products, carts, orders, reqs, started>>
        ELSE /\ es2.next <= MaxSid + 1
             /\ Len(orders) < MaxOrders
             /\ orders' = Append(orders, order)
             /\ carts' = delete_one(carts, es.sid)
             /\ nextSid' = es2.next
             /\ cookies' = [cookies EXCEPT ![b].sid = es2.sid]
             /\ last' = Resp("checkout", b, 200, es.sid, es2.sid, ~es.minted,
                             0, 0, order.items, order.subtotal, Len(orders) + 1)
             /\ UNCHANGED <<products, reqs, started>>

\* POST /checkout
checkout(b) ==
    IF ~age_verified(cookies[b])
    THEN /\ last' = Resp("checkout", b, 403, NoSid, NoSid, cookies[b].sid # NoSid,
                         0, 0, <<>>, 0, 0)
         /\ UNCHANGED <<products, carts, orders, cookies, nextSid, reqs, started>>
    ELSE
    LET es    == ensure_sid(cookies[b].sid, nextSid)
        cart  == find_cart(carts, es.sid)
        es2   == ensure_sid(cookies[b].sid, es.next)
        view  == CartOut(carts, products, es2.sid)
        order == order_doc(es.sid, cart, view.subtotal)
    IN  /\ es2.next <= MaxSid + 1
        /\ Len(orders) < MaxOrders
        /\ orders' = Append(orders, order)
        /\ carts' = delete_one(carts, es.sid)
        /\ nextSid' = es2.next
        /\ cookies' = [cookies EXCEPT ![b].sid = es2.sid]
        /\ last' = Resp("checkout", b, 200, es.sid, es2.sid, ~es.minted,
                        0, 0, order.items, order.subtotal, Len(orders) + 1)
        /\ UNCHANGED <<products, reqs, started>>

Next ==
    \/ \E b \in Browsers : verify_age(b)
    \/ \E b \in Browsers : auth_status(b)
    \/ \E category \in CategoryInputs : list_products(category)
    \/ \E payload \in ProductInputs : create_product(payload)
    \/ \E pid \in PidInputs, payload \in ProductInputs : update_product(pid, payload)
    \/ \E b \in Browsers : get_cart(b)
    \/ \E b \in Browsers, p \in PidInputs, q \in QtyInputs : add_to_cart(b, p, q)
    \/ \E b \in Browsers, p \in PidInputs : remove_from_cart(b, p)
    \/ \E b \in Browsers : checkout(b)

Spec == Init /\ [][Next]_vars

\* ------------------------------------------- the catalog over any store
\* The product collection starts with whatever documents it was given.
RECURSIVE SeqsUpTo(_, _)
SeqsUpTo(S, n) ==
    IF n = 0 THEN {<<>>}
    ELSE LET shorter == SeqsUpTo(S, n - 1)
         IN  shorter \cup {Append(q, x) : q \in shorter, x \in S}

InitList ==
    /\ products \in SeqsUpTo(StoredDocs, MaxStored)
    /\ carts = << >>
    /\ orders = <<>>
    /\ cookies = [b \in Browsers |-> [sid |-> NoSid, age_verified_21 |-> FALSE]]
    /\ nextSid = 1
    /\ last = NoResp
    /\ reqs = [t \in Threads |-> Idle]
    /\ started = 0

NextList ==
    \/ \E category \in CategoryInputs : list_products(category)
    \/ \E payload \in ProductInputs : create_product(payload)
    \/ \E pid \in PidInputs, payload \in ProductInputs : update_product(pid, payload)

SpecList == InitList /\ [][NextList]_vars

\* ------------------------------------- handlers, one store operation a step
\* A request is served by its own handler; the store serialises single
\* operations only.  ensure_sid and the arithmetic are local to the handler and
\* ride with the store operation that follows them.  verify_age,
\* create_product and update_product do at most one store operation and are
\* the actions above.

\* ensure_sid calls that will still mint for request r
mints_left(r) ==
    IF r.cookie = NoSid /\ r.pc \in {"write", "view"} THEN 1 ELSE 0

reserved_sids == Cardinality({t \in Threads : mints_left(reqs[t]) = 1})

\* checkouts that have yet to insert their order
reserved_orders ==
    Cardinality({t \in Threads : reqs[t].op = "checkout"
                                  /\ reqs[t].pc \in {"view", "loop", "insert"}})

can_mint(cookie, n) ==
    cookie = NoSid => (nextSid - 1) + reserved_sids + n <= MaxSid

\* get_cart: sid = ensure_sid(...); cart = find_one(...) or {"items": []}
start_get_cart(t, b) ==
    LET es == ensure_sid(cookies[b].sid, nextSid) IN
    /\ reqs[t].pc = "idle"
    /\ can_mint(cookies[b].sid, 1)
    /\ started < MaxStarted
    /\ started' = started + 1
    /\ nextSid' = es.next
    /\ reqs' = [reqs EXCEPT ![t] =
                  [Idle EXCEPT !.pc = "loop", !.op = "get_cart", !.b = b,
                               !.cookie = cookies[b].sid, !.sid = es.sid,
                               !.vsid = es.sid,
                               !.vitems = find_cart(carts, es.sid).items]]
    /\ UNCHANGED <<products, carts, orders, cookies, last>>

\* add_to_cart: body validation, then ensure_sid and find_one
start_add_to_cart(t, b, p, q) ==
    /\ reqs[t].pc = "idle"
    /\ IF ~ValidQty(q)
       THEN /\ last' = Resp("add_to_cart", b, 422, NoSid, NoSid,
                            cookies[b].sid # NoSid, 0, 0, <<>>, 0, 0)
            /\ UNCHANGED <<products, carts, orders, cookies, nextSid, reqs, started>>
       ELSE LET es == ensure_sid(cookies[b].sid, nextSid) IN
            /\ can_mint(cookies[b].sid, 2)
            /\ started < MaxStarted
            /\ started' = started + 1
            /\ nextSid' = es.next
            /\ reqs' = [reqs EXCEPT ![t] =
                          [Idle EXCEPT !.pc = "write", !.op = "add_to_cart", !.b = b,
                                       !.cookie = cookies[b].sid, !.sid = es.sid,
                                       !.pid = p, !.qty = q,
                                       !.cart = find_cart(carts, es.sid)]]
            /\ UNCHANGED <<products, carts, orders, cookies, last>>

\* remove_from_cart: ensure_sid and find_one
start_remove_from_cart(t, b, p) ==
    LET es == ensure_sid(cookies[b].sid, nextSid) IN
    /\ reqs[t].pc = "idle"
    /\ can_mint(cookies[b].sid, 2)
    /\ started < MaxStarted
    /\ started' = started + 1
    /\ nextSid' = es.next
    /\ reqs' = [reqs EXCEPT ![t] =
                  [Idle EXCEPT !.pc = "write", !.op = "remove_from_cart", !.b = b,
                               !.cookie = cookies[b].sid, !.sid = es.sid,
                               !.pid = p,
                               !.cart = find_cart(carts, es.sid)]]
    /\ UNCHANGED <<products, carts, orders, cookies, last>>

\* checkout: the age check, then ensure_sid and find_one
start_checkout(t, b) ==
    /\ reqs[t].pc = "idle"
    /\ IF ~age_verified(cookies[b])
       THEN /\ last' = Resp("checkout", b, 403, NoSid, NoSid,
                            cookies[b].sid # NoSid, 0, 0, <<>>, 0, 0)
            /\ UNCHANGED <<products, carts, orders, cookies, nextSid, reqs, started>>
       ELSE LET es == ensure_sid(cookies[b].sid, nextSid) IN
            /\ can_mint(cookies[b].sid, 2)
            /\ Len(orders) + reserved_orders < MaxOrders
            /\ started < MaxStarted
            /\ started' = started + 1
            /\ nextSid' = es.next
            /\ reqs' = [reqs EXCEPT ![t] =
                          [Idle EXCEPT !.pc = "view", !.op = "checkout", !.b = b,
                                       !.cookie = cookies[b].sid, !.sid = es.sid,
                                       !.cart = find_cart(carts, es.sid)]]
            /\ UNCHANGED <<products, carts, orders, cookies, last>>

\* add_to_cart / remove_from_cart: change the copy, then update_one(..., upsert=True);
\* a refused update is an unhandled exception: the request answers 500
write_cart(t) ==
    LET r   == reqs[t]
        doc == [r.cart EXCEPT !.items =
                   IF r.op = "add_to_cart" THEN upsert_item(r.cart.items, r.pid, r.qty)
                   ELSE remove_item(r.cart.items, r.pid)]
    IN  /\ r.pc = "write"
        /\ IF update_ok(carts, r.sid, doc)
           THEN /\ carts' = update_one(carts, r.sid, doc)
                /\ reqs' = [reqs EXCEPT ![t].pc = "view"]
                /\ UNCHANGED last
           ELSE /\ carts' = carts
                /\ reqs' = [reqs EXCEPT ![t] = Idle]
                /\ last' = [Resp(r.op, r.b, 500, r.sid, NoSid, r.cookie # NoSid,
                                 r.pid, r.qty, <<>>, 0, 0)
                             EXCEPT !.had_qty = qty_of(r.cart.items, r.pid)]
        /\ UNCHANGED <<products, orders, cookies, nextSid, started>>

\* the nested get_cart(request, response): ensure_sid on the same request, find_one
view_find(t) ==
    LET r  == reqs[t]
        es == ensure_sid(r.cookie, nextSid)
    IN  /\ r.pc = "view"
        /\ nextSid' = es.next
        /\ reqs' = [reqs EXCEPT ![t].pc = "loop", ![t].vsid = es.sid,
                                ![t].vitems = find_cart(carts, es.sid).items]
        /\ UNCHANGED <<products, carts, orders, cookies, last, started>>

\* get_cart, one turn of the loop: find_one on the product of entry i
view_lookup(t) ==
    LET r  == reqs[t]
        it == r.vitems[r.i]
    IN  /\ r.pc = "loop"
        /\ r.i <= Len(r.vitems)
        /\ reqs' = [reqs EXCEPT
                      ![t].i = r.i + 1,
                      ![t].items = IF Shown(products, it)
                                   THEN Append(r.items, it) ELSE r.items,
                      ![t].subtotal = IF Shown(products, it)
                                      THEN r.subtotal + products[it.product_id].price * it.qty
                                      ELSE r.subtotal]
        /\ UNCHANGED <<products, carts, orders, cookies, nextSid, last, started>>

\* get_cart returns CartOut; get_cart, add_to_cart and remove_from_cart answer it
\* (the browser keeps the cookie set last), checkout goes on with the subtotal
view_done(t) ==
    LET r == reqs[t] IN
    /\ r.pc = "loop"
    /\ r.i > Len(r.vitems)
    /\ IF r.op = "checkout"
       THEN /\ reqs' = [reqs EXCEPT ![t].pc = "insert",
                                    ![t].subtotal = Round2(r.subtotal)]
            /\ UNCHANGED <<cookies, last>>
       ELSE /\ reqs' = [reqs EXCEPT ![t] = Idle]
            /\ cookies' = IF r.cookie = NoSid
                          THEN [cookies EXCEPT ![r.b].sid = r.vsid]
                          ELSE cookies
            /\ last' = [Resp(r.op, r.b, 200, r.sid, r.vsid, r.cookie # NoSid,
                             r.pid, r.qty, r.items, Round2(r.subtotal), 0)
                         EXCEPT !.had_qty = qty_of(r.cart.items, r.pid)]
    /\ UNCHANGED <<products, carts, orders, nextSid, started>>

\* checkout: create_document("order", order_doc)
insert_order(t) ==
    LET r == reqs[t] IN
    /\ r.pc = "insert"
    /\ orders' = Append(orders, order_doc(r.sid, r.cart, r.subtotal))
    /\ reqs' = [reqs EXCEPT ![t].pc = "delete", ![t].i = Len(orders) + 1]
    /\ UNCHANGED <<products, carts, cookies, nextSid, last, started>>

\* checkout: delete_one({"session_id": sid}), then the OrderOut answer
delete_cart(t) ==
    LET r == reqs[t] IN
    /\ r.pc = "delete"
    /\ carts' = delete_one(carts, r.sid)
    /\ reqs' = [reqs EXCEPT ![t] = Idle]
    /\ cookies' = IF r.cookie = NoSid
                  THEN [cookies EXCEPT ![r.b].sid = r.vsid]
                  ELSE cookies
    /\ last' = Resp("checkout", r.b, 200, r.sid, r.vsid, r.cookie # NoSid,
                    0, 0, r.cart.items, r.subtotal, r.i)
    /\ UNCHANGED <<products, orders, nextSid, started>>

\* update_product is not among the steps: it rewrites one product document in
\* one store operation and create_product already makes the catalog vary under
\* the handlers that run.
NextInterleaved ==
    \/ \E b \in Browsers : verify_age(b)
    \/ \E payload \in ProductInputs : create_product(payload)
    \/ \E t \in Threads, b \in Browsers : start_get_cart(t, b)
    \/ \E t \in Threads, b \in Browsers, p \in PidInputs, q \in QtyInputs :
          start_add_to_cart(t, b, p, q)
    \/ \E t \in Threads, b \in Browsers, p \in PidInputs : start_remove_from_cart(t, b, p)
    \/ \E t \in Threads, b \in Browsers : start_checkout(t, b)
    \/ \E t \in Threads : write_cart(t)
    \/ \E t \in Threads : view_find(t)
    \/ \E t \in Threads : view_lookup(t)
    \/ \E t \in Threads : view_done(t)
    \/ \E t \in Threads : insert_order(t)
    \/ \E t \in Threads : delete_cart(t)

SpecInterleaved == Init /\ [][NextInterleaved]_vars

\* ------------------------------------------------------------------ claims

\* helpers of the statements below
Range(seq) == {seq[i] : i \in DOMAIN seq}

items_of(c, sid) == IF sid \in DOMAIN c THEN c[sid].items ELSE <<>>

\* the product an entry refers to exists and is in stock
Visible(prods, it) ==
    \E id \in 1 .. Len(prods) : id = it.product_id /\ prods[id].in_stock

VisibleIdx(prods, items) == {i \in DOMAIN items : Visible(prods, items[i])}

RECURSIVE SumIdx(_, _, _)
SumIdx(prods, items, S) ==
    IF S = {} THEN 0
    ELSE LET i == CHOOSE j \in S : TRUE
         IN  prods[items[i].product_id].price * items[i].qty
             + SumIdx(prods, items, S \ {i})

ExactSubtotal(prods, items) == SumIdx(prods, items, VisibleIdx(prods, items))

\* r is x rounded to two decimals: a multiple of 10 mills no further than 5 mills
IsRounded(r, x) == r % 10 = 0 /\ r - x <= 5 /\ x - r <= 5

\* view is the sublist of the visible entries of items, in order
IsProjection(prods, items, view) ==
    /\ Len(view) = Cardinality(VisibleIdx(prods, items))
    /\ \A i \in VisibleIdx(prods, items) :
         view[Cardinality({j \in VisibleIdx(prods, items) : j <= i})] = items[i]

\* C1: a checkout by a session whose age_verified_21 flag is not true answers
\* 403 (AgeVerificationRequired) and leaves carts, orders and catalog as they were.
C1_UnverifiedCheckoutFails ==
    [][ (last'.op = "checkout" /\ ~cookies[last'.b].age_verified_21)
          => /\ last'.status = 403
             /\ carts' = carts
             /\ orders' = orders
             /\ products' = products ]_vars

\* refused while the session's cart holds entries, beside another session's cart
C1_Witness ==
    /\ last.op = "checkout"
    /\ last.status = 403
    /\ cookies[last.b].sid \in DOMAIN carts
    /\ carts[cookies[last.b].sid].items # <<>>
    /\ \E s \in DOMAIN carts : s # cookies[last.b].sid /\ carts[s].items # <<>>
    /\ products # <<>>

\* C2: a verified checkout of a session that carries its sid returns an order
\* whose subtotal is what get_cart answered just before, and get_cart just
\* after answers no items and subtotal 0.
C2_CheckoutSubtotalAndClear ==
    [][ (last'.op = "checkout" /\ last'.status = 200 /\ last'.had_sid)
          => /\ last'.subtotal = CartOut(carts, products, cookies[last'.b].sid).subtotal
             /\ CartOut(carts', products', cookies'[last'.b].sid)
                  = [items |-> <<>>, subtotal |-> 0] ]_vars

C2_Witness ==
    /\ last.op = "checkout"
    /\ last.status = 200
    /\ last.had_sid
    /\ last.subtotal > 0
    /\ last.items # <<>>

\* C3: no persisted cart holds two entries with the same product_id, whatever
\* the order in which the handlers' reads and writes reach the store.
C3_NoDuplicateProduct ==
    \A s \in DOMAIN carts :
        \A i, j \in DOMAIN carts[s].items :
            carts[s].items[i].product_id = carts[s].items[j].product_id => i = j

\* two adds of one product by one session: both read the cart without the
\* product before either wrote, and both have written
C3_Witness ==
    \E t, u \in Threads :
        /\ t # u
        /\ reqs[t].op = "add_to_cart" /\ reqs[u].op = "add_to_cart"
        /\ reqs[t].pc = "view" /\ reqs[u].pc = "view"
        /\ reqs[t].sid = reqs[u].sid
        /\ reqs[t].pid = reqs[u].pid
        /\ reqs[t].qty # reqs[u].qty
        /\ reqs[t].cart = reqs[u].cart
        /\ qty_of(reqs[t].cart.items, reqs[t].pid) = 0
        /\ reqs[t].sid \in DOMAIN carts

\* C4: add(p, q) by a session that carries its sid leaves exactly one entry for
\* p, with qty q (overwritten, not summed), and every other entry as it was.
C4_AddOverwrites ==
    [][ (last'.op = "add_to_cart" /\ last'.status = 200 /\ last'.had_sid)
          => LET sid  == cookies[last'.b].sid
                 pre  == items_of(carts, sid)
                 post == items_of(carts', sid)
             IN  /\ sid \in DOMAIN carts'
                 /\ Cardinality({i \in DOMAIN post : post[i].product_id = last'.pid}) = 1
                 /\ \A i \in DOMAIN post :
                      post[i].product_id = last'.pid => post[i].qty = last'.qty
                 /\ SelectSeq(post, LAMBDA it : it.product_id # last'.pid)
                      = SelectSeq(pre, LAMBDA it : it.product_id # last'.pid) ]_vars

\* the second add of the same product, with another quantity, beside another entry
C4_Witness ==
    /\ last.op = "add_to_cart"
    /\ last.status = 200
    /\ last.had_sid
    /\ last.had_qty # 0
    /\ last.had_qty # last.qty
    /\ Len(items_of(carts, last.sid)) > 1

\* C5: remove(p) answers a cart view; with no entry for p the persisted item
\* list stays as it was, with an entry for p that entry goes and the others stay.
C5_RemoveFrame ==
    [][ last'.op = "remove_from_cart"
          => LET sid  == last'.sid
                 pre  == items_of(carts, sid)
                 post == items_of(carts', sid)
                 at   == {i \in DOMAIN pre : pre[i].product_id = last'.pid}
             IN  /\ last'.status = 200
                 /\ at = {} => post = pre
                 /\ at # {} => \E i \in at :
                       post = SubSeq(pre, 1, i - 1) \o SubSeq(pre, i + 1, Len(pre)) ]_vars

C5_Witness ==
    /\ last.op = "remove_from_cart"
    /\ last.status = 200
    /\ last.had_qty = 0
    /\ items_of(carts, last.sid) # <<>>

C7_ReadIsPure ==
    [][ last'.op = "get_cart"
          => /\ carts' = carts
             /\ orders' = orders
             /\ products' = products
             /\ \A it \in Range(items_of(carts, last'.sid)) :
                  Visible(products, it) => it \in Range(last'.items) ]_vars

\* a read that hides an entry of the persisted cart
C7_Witness ==
    /\ last.op = "get_cart"
    /\ \E it \in Range(items_of(carts, last.sid)) :
         /\ it \notin Range(last.items)
         /\ it.product_id \in DOMAIN products

\* C8: the order of a successful checkout carries the raw persisted item list
\* of the session's cart and the filtered (visible entries only) subtotal.
C8_OrderRawItemsFilteredSubtotal ==
    [][ (last'.op = "checkout" /\ last'.status = 200)
          => /\ Len(orders') = Len(orders) + 1
             /\ LET o == orders'[Len(orders')] IN
                  /\ o.session_id = last'.sid
                  /\ o.items = items_of(carts, last'.sid)
                  /\ IsRounded(o.subtotal, ExactSubtotal(products, o.items))
                  /\ last'.items = o.items
                  /\ last'.subtotal = o.subtotal ]_vars

\* an order that lists an entry its subtotal does not count
C8_Witness ==
    /\ last.op = "checkout"
    /\ last.status = 200
    /\ last.subtotal # 0
    /\ \E it \in Range(orders[Len(orders)].items) : ~Visible(products, it)

\* C9: after add(p, q) of an existing in-stock product, the answered view
\* holds the entry {p, q} (the sid written is the sid read and returned).
C9_AddShowsEntry ==
    (last.op = "add_to_cart" /\ last.status = 200
       /\ Visible(products, CartItem(last.pid, last.qty)))
      => /\ last.sid = last.view_sid
         /\ CartItem(last.pid, last.qty) \in Range(last.items)

\* C10: every stored product has price >= 0 and an allowed category.
C10_StoredProductsValid ==
    \A id \in DOMAIN products :
        products[id].price >= 0 /\ products[id].category \in AllowedCategory

\* C11: whatever documents the product collection holds (also ones of a
\* category outside the policy, also ones that lack a title), a listing
\* without a category succeeds and returns exactly the stored documents
\* that are well formed and of an allowed category: every item is of an
\* allowed category and carries a title, and no such document is left out.
C11_ListOnlyAllowedWellFormed ==
    (last.op = "list_products" /\ last.category = <<>>) =>
        /\ last.status = 200
        /\ \A k \in DOMAIN last.items :
              /\ last.items[k].category \in AllowedCategory
              /\ Len(last.items[k].title) = 1
              /\ last.items[k].id \in DOMAIN products
              /\ products[last.items[k].id].category = last.items[k].category
              /\ products[last.items[k].id].price = last.items[k].price
              /\ \A j \in DOMAIN last.items : last.items[j].id = last.items[k].id => j = k
        /\ \A i \in DOMAIN products :
              (products[i].category \in AllowedCategory /\ Len(products[i].title) = 1)
                  => \E k \in DOMAIN last.items : last.items[k].id = i

C11_Witness ==
    /\ last.op = "list_products" /\ last.category = <<>>
    /\ Len(last.items) = 1
    /\ \E i \in DOMAIN products : products[i].category \notin AllowedCategory
    /\ \E i \in DOMAIN products :
          products[i].category \in AllowedCategory /\ products[i].title = <<>>

\* C12: an update with an accepted payload answers 400 exactly when the id
\* is not in the expected format and 404 exactly when the well-formed id
\* matches no record; every failed update leaves the catalog as it was (no
\* record is created); a successful one keeps the set of ids and changes no
\* record but the one addressed.
C12_UpdateErrorsAndFrame ==
    [][ last'.op = "update_product" =>
          /\ last'.status \in {200, 400, 404, 422}
          /\ last'.status # 422 =>
                /\ (last'.status = 400) <=> (last'.pid = BadId)
                /\ (last'.status = 404) <=>
                      (last'.pid # BadId /\ last'.pid \notin DOMAIN products)
          /\ last'.status # 200 => products' = products
          /\ last'.status = 200 =>
                /\ DOMAIN products' = DOMAIN products
                /\ \A i \in DOMAIN products :
                      i # last'.pid => products'[i] = products[i]
      ]_vars

C12_Witness ==
    /\ last.op = "update_product" /\ last.status = 200
    /\ Len(products) = 2
    /\ products[last.pid].category = "vapes"
    /\ products[2].title = <<>>

\* C13: a checkout is atomic for its caller under every interleaving with
\* the add and remove requests of the same session: the list it prices is
\* the list it snapshotted for the order, and when it comes to delete the
\* cart row the row still holds exactly the snapshotted list, so that no
\* entry written meanwhile is deleted without being in the order.
C13_CheckoutAtomic ==
    \A t \in Threads :
        LET r == reqs[t] IN
        r.op = "checkout" =>
            /\ r.pc \in {"loop", "insert", "delete"} => r.vitems = r.cart.items
            /\ r.pc = "delete" => find_cart(carts, r.sid).items = r.cart.items

\* C14: the read-modify-write of add and remove is not isolated.  Every
\* write replaces the persisted list by the writer's own document: after
\* it, each persisted entry is the writer's entry or an entry of the list
\* the writer read, whatever another request wrote in between.  The
\* witness is the interleaving of two adds of one session that both read
\* before either writes: the entry of the first writer is lost.
C14_LastWriterWins ==
    [][ \A t \in Threads :
          (reqs[t].pc = "write" /\ reqs'[t].pc = "view") =>
              /\ reqs[t].sid \in DOMAIN carts'
              /\ \A k \in DOMAIN carts'[reqs[t].sid].items :
                    LET e == carts'[reqs[t].sid].items[k] IN
                    \/ reqs[t].op = "add_to_cart" /\ e = CartItem(reqs[t].pid, reqs[t].qty)
                    \/ e.product_id # reqs[t].pid /\ e \in Range(reqs[t].cart.items)
      ]_vars

C14_Witness ==
    \E t, u \in Threads :
        /\ t # u
        /\ reqs[t].op = "add_to_cart" /\ reqs[u].op = "add_to_cart"
        /\ reqs[t].pc = "view" /\ reqs[u].pc = "view"
        /\ reqs[t].sid = reqs[u].sid
        /\ reqs[t].pid # reqs[u].pid
        /\ reqs[t].cart = reqs[u].cart
        /\ reqs[t].sid \in DOMAIN carts
        /\ qty_of(carts[reqs[t].sid].items, reqs[t].pid) = 0
        /\ qty_of(carts[reqs[u].sid].items, reqs[u].pid) = reqs[u].qty

\* C15: a cart row comes into existence only through add: whenever a session
\* that had no row has one after a request, that request was an add for
\* that session (a remove and a read never create a row).
C15_RowOnlyThroughAdd ==
    [][ \A s \in DOMAIN carts' \ DOMAIN carts :
          last'.op = "add_to_cart" /\ last'.sid = s ]_vars

\* C16: a remove never takes a cart from active to absent: the session it
\* acts on has a row afterwards, also when the list became empty, and every
\* row that existed still exists.  A row disappears only through a
\* successful checkout of its session.
C16_OnlyCheckoutDeletesRow ==
    [][ /\ \A s \in DOMAIN carts \ DOMAIN carts' :
              last'.op = "checkout" /\ last'.status = 200 /\ last'.sid = s
        /\ last'.op = "remove_from_cart" =>
              /\ DOMAIN carts \subseteq DOMAIN carts'
              /\ last'.sid \in DOMAIN carts'
      ]_vars

C16_Witness ==
    /\ last.op = "remove_from_cart" /\ last.status = 200
    /\ last.had_sid
    /\ last.had_qty > 0
    /\ last.sid \in DOMAIN carts
    /\ carts[last.sid].items = <<>>

\* C17: the age flag of a session is monotone: it turns true only by a
\* verify-age request of that session, no request of any kind turns it
\* false again, and an auth-status request reports the value the flag has.
C17_AgeFlagMonotone ==
    [][ \A b \in Browsers :
          /\ cookies[b].age_verified_21 => cookies'[b].age_verified_21
          /\ (~cookies[b].age_verified_21 /\ cookies'[b].age_verified_21) =>
                (last'.op = "verify_age" /\ last'.b = b)
          /\ (last'.op = "auth_status" /\ last'.b = b) =>
                /\ last'.age_verified = cookies[b].age_verified_21
                /\ cookies'[b].age_verified_21 = cookies[b].age_verified_21
      ]_vars

C17_Witness ==
    /\ last.op = "auth_status" /\ last.age_verified
    /\ Len(orders) = 1
    /\ carts # << >>
    /\ products # <<>>

\* C18: a checkout by an age-verified session is never refused, whatever the
\* cart holds; when the session has no cart row or a row with an empty list
\* it creates one order with no items, subtotal 0 and status "created",
\* and the session has no cart row afterwards.
C18_EmptyCheckoutSucceeds ==
    [][ (last'.op = "checkout" /\ age_verified(cookies[last'.b])) =>
          /\ last'.status = 200
          /\ items_of(carts, last'.sid) = <<>> =>
                /\ last'.items = <<>> /\ last'.subtotal = 0
                /\ Len(orders') = Len(orders) + 1
                /\ orders'[Len(orders')] =
                      [session_id |-> last'.sid, items |-> <<>>, subtotal |-> 0,
                       status |-> "created"]
                /\ last'.id = Len(orders')
                /\ last'.sid \notin DOMAIN carts'
      ]_vars

C18_Witness ==
    /\ last.op = "checkout" /\ last.status = 200
    /\ last.had_sid
    /\ last.items = <<>> /\ last.subtotal = 0
    /\ Len(orders) = 1 /\ orders[1].items = <<>> /\ orders[1].status = "created"
    /\ last.sid \notin DOMAIN carts
    /\ products # <<>>

C20_CartsIsolated ==
    [][ last'.op \in {"get_cart", "add_to_cart", "remove_from_cart", "checkout"} =>
          /\ products' = products
          /\ \A s \in DOMAIN carts \cup DOMAIN carts' :
                s # last'.sid =>
                    /\ s \in DOMAIN carts /\ s \in DOMAIN carts'
                    /\ carts'[s] = carts[s]
      ]_vars

C20_Witness ==
    /\ last.op = "checkout" /\ last.status = 200
    /\ last.items # <<>>
    /\ products # <<>>
    /\ \E s \in DOMAIN carts : s # last.sid /\ carts[s].items # <<>>

====
